---------------------------- MODULE Spec2Model ----------------------------
(***************************************************************************)
(* Model of the brokex proof ingestor: the three scheduler scripts         *)
(* (src/index.js, src/unnamed/part_001, src/unnamed/part_002).             *)
(* Each script computes the monitored identifiers once, then runs tick()   *)
(* on a timer; a tick filters the identifiers by the trading calendar,     *)
(* chunks them, and for each chunk fetches a proof (pRetry, 4 attempts)    *)
(* and submits it on-chain (pRetry, 3 attempts).                           *)
(***************************************************************************)
EXTENDS Integers, Sequences, FiniteSets, TLC

(* ------------------------------ bounds -------------------------------- *)
\* number of tick bodies the model can hold at once (the code allows one)
MaxTicks == 2
\* the slice of network latency by which time passes during a call while
\* no timer is pending
Latency == 500
\* the values of Math.floor(Math.random() * 300) that are tried
RandomBelow300 == {0, 299}
\* the helper calls that are tried: identifiers 0..MaxId, override strings
\* of up to MaxTokens tokens, arrays of up to MaxLen elements and chunk
\* sizes up to MaxSize
MaxId == 6300
MaxTokens == 2
MaxLen == 4
MaxSize == 3

(* --------------------------- configuration ---------------------------- *)
\* process.env.INTERVAL_MS, here "1000" (the defaults are 5000 and 15000)
INTERVAL_MS == 1000

Scripts == {"index", "part_001", "part_002"}

(* ------------------------- numbers and NaN ---------------------------- *)
\* a JS number is modelled by an integer; NaN by a value no token can name
NaN == -1
\* the parts of a token after split("-"): a numeral n >= 0 stands for
\* itself, EMPTY for the empty string and JUNK for a non-numeric string
EMPTY == -2
JUNK == -3

Number(part) == IF part >= 0 THEN part ELSE IF part = EMPTY THEN 0 ELSE NaN

MathMin(a, b) == IF a = NaN \/ b = NaN THEN NaN ELSE IF a <= b THEN a ELSE b
MathMax(a, b) == IF a = NaN \/ b = NaN THEN NaN ELSE IF a >= b THEN a ELSE b

\* the JS relational operators: every comparison with NaN is false
Lt(a, b) == a # NaN /\ b # NaN /\ a < b
Le(a, b) == a # NaN /\ b # NaN /\ a <= b
Ge(a, b) == a # NaN /\ b # NaN /\ a >= b

Range(s) == {s[i] : i \in DOMAIN s}

\* the concatenation of a sequence of sequences
RECURSIVE Flatten(_)
Flatten(ss) == IF ss = <<>> THEN <<>> ELSE Head(ss) \o Flatten(Tail(ss))

(* ------------------------------ helpers ------------------------------- *)
rangeInclusive(a, b) ==
  LET start == MathMin(a, b)
      end == MathMax(a, b)
  IN IF Le(start, end) THEN [i \in 1..(end - start + 1) |-> start + i - 1]
     ELSE <<>>

rangeHalfOpen(a, b) == IF a < b THEN [i \in 1..(b - a) |-> a + i - 1] ELSE <<>>

\* the values a token adds to the Set `out`, in insertion order
TokenValues(token) ==
  IF Len(token) > 1
  THEN rangeInclusive(Number(token[1]), Number(token[2]))
  ELSE <<Number(token[1])>>

\* Set.add over the tokens: insertion order, first occurrence kept
RECURSIVE SetAddAll(_, _)
SetAddAll(out, tokens) ==
  IF tokens = <<>> THEN out
  ELSE LET new == SelectSeq(TokenValues(Head(tokens)),
                            LAMBDA x : x \notin Range(out))
       IN SetAddAll(out \o new, Tail(tokens))

\* ascending order of a duplicate-free sequence of numbers (no NaN)
SortAscending(arr) ==
  LET S == Range(arr)
      Hi == IF S = {} THEN 0 ELSE CHOOSE m \in S : \A x \in S : x <= m
  IN SelectSeq([i \in 1..(Hi + 1) |-> i - 1], LAMBDA x : x \in S)

\* comparator (x,y) => x-y, a NaN result being read as 0
Compare(x, y) == IF x = NaN \/ y = NaN THEN 0 ELSE x - y

\* Array.prototype.sort((x,y)=>x-y).  Without NaN the comparator is
\* consistent and the result is the ascending order.  With NaN it is not,
\* and the order is implementation-defined: the outcomes kept here are the
\* input left as it is when it already is one non-descending run for the
\* comparator (what a run-detecting merge sort returns), and the ascending
\* order of the numbers followed by the NaN.
SortOutcomes(arr) ==
  IF NaN \notin Range(arr) THEN {SortAscending(arr)}
  ELSE {SortAscending(SelectSeq(arr, LAMBDA x : x # NaN)) \o <<NaN>>}
       \cup (IF \A i \in 2..Len(arr) : Compare(arr[i], arr[i-1]) >= 0
             THEN {arr} ELSE {})

NumberIsFinite(x) == x # NaN

\* expandRanges(spec): spec is the sequence of the non-empty trimmed tokens,
\* each token the sequence of its parts around "-"
expandRanges(script, spec) ==
  IF spec = <<>> THEN {<<>>}
  ELSE LET out == SetAddAll(<<>>, spec)
       IN IF script = "index" THEN SortOutcomes(out)
          ELSE SortOutcomes(SelectSeq(out, NumberIsFinite))

\* a variant of chunk that keeps the full groups only
chunkFullGroupsOnly(arr, size) ==
  [k \in 1..(Len(arr) \div size) |->
     SubSeq(arr, (k - 1) * size + 1, k * size)]

chunk(arr, size) ==
  [k \in 1..((Len(arr) + size - 1) \div size) |->
     SubSeq(arr, (k - 1) * size + 1,
            IF k * size <= Len(arr) THEN k * size ELSE Len(arr))]

MAX_PER_PROOF == 200

(* ----------------------------- catalog -------------------------------- *)
\* the (id, cat) pairs of ASSETS, in declaration order
ASSETS ==
  << <<6004, "equity">>, <<6005, "equity">>, <<6010, "equity">>,
     <<6003, "equity">>, <<6011, "equity">>, <<6009, "equity">>,
     <<6059, "equity">>, <<6068, "equity">>, <<6001, "equity">>,
     <<6066, "equity">>, <<6006, "equity">>, <<6002, "equity">>,
     <<6000, "equity">>,
     <<5010, "fxcom">>, <<5000, "fxcom">>, <<5002, "fxcom">>,
     <<5013, "fxcom">>, <<5011, "fxcom">>, <<5012, "fxcom">>,
     <<5001, "fxcom">>,
     <<5501, "fxcom">>, <<5500, "fxcom">>, <<5503, "fxcom">>,
     <<0, "crypto">>, <<1, "crypto">>, <<10, "crypto">>, <<14, "crypto">>,
     <<5, "crypto">>, <<3, "crypto">>, <<15, "crypto">>, <<16, "crypto">>,
     <<90, "crypto">>, <<2, "crypto">>,
     <<6038, "equity">>,
     <<6034, "equity">>, <<6113, "index">>, <<6114, "index">>,
     <<6115, "index">> >>

ALL_IDS == SortAscending([i \in DOMAIN ASSETS |-> ASSETS[i][1]])

DEFAULT_ALL_IDS ==
  rangeHalfOpen(0, 100) \o rangeInclusive(5000, 5600)
    \o rangeHalfOpen(6000, 6100) \o rangeHalfOpen(6100, 6200)

inferCategoryById(id) ==
  IF Ge(id, 0) /\ Le(id, 1000) THEN "crypto"
  ELSE IF (Ge(id, 5000) /\ Le(id, 5600)) \/ (Ge(id, 5500) /\ Le(id, 5599))
       THEN "fxcom"
  ELSE IF Ge(id, 6000) THEN "equity"
  ELSE "unknown"

\* Object.values(ASSETS).find(a => a.id === id): the first entry with the
\* id (NaN === NaN is false)
getCategory(id) ==
  IF id # NaN /\ id \in Range(ALL_IDS)
  THEN ASSETS[CHOOSE i \in DOMAIN ASSETS :
                /\ ASSETS[i][1] = id
                /\ \A j \in 1..(i - 1) : ASSETS[j][1] # id][2]
  ELSE inferCategoryById(id)

getCategoryById(id) ==
  IF Ge(id, 0) /\ Lt(id, 100) THEN "crypto"
  ELSE IF Ge(id, 5000) /\ Le(id, 5600) THEN "fxcom"
  ELSE IF Ge(id, 6000) /\ Lt(id, 6100) THEN "equity"
  ELSE IF Ge(id, 6100) /\ Lt(id, 6200) THEN "index"
  ELSE "unknown"

\* the category function the script's tick calls
CategoryOf(script, id) ==
  IF script = "index" THEN getCategory(id) ELSE getCategoryById(id)

(* ----------------------------- calendar ------------------------------- *)
\* An instant is [weekday (1=Mon..7=Sun), hour, minute] in UTC with the
\* offset (in hours) of America/New_York at that instant; setZone gives
\* the New-York civil weekday, hour and minute.
setZone(nowUTC) ==
  LET m == nowUTC.hour * 60 + nowUTC.minute - nowUTC.offset * 60
      wd == IF m < 0 THEN ((nowUTC.weekday + 5) % 7) + 1 ELSE nowUTC.weekday
      mm == IF m < 0 THEN m + 1440 ELSE m
  IN [weekday |-> wd, hour |-> mm \div 60, minute |-> mm % 60]

\* a variant of isAllowedNowByCategory whose equity window excludes 16:30
isAllowedClosingExcluded(cat, nowUTC) ==
  LET nowNY == setZone(nowUTC)
      weekday == nowNY.weekday
      minutes == nowNY.hour * 60 + nowNY.minute
  IN CASE cat = "crypto" -> TRUE
       [] cat \in {"fxcom", "index"} -> weekday >= 1 /\ weekday <= 5
       [] cat = "equity" ->
            IF ~(weekday >= 1 /\ weekday <= 5) THEN FALSE
            ELSE minutes >= (9*60 + 30) /\ minutes < (16*60 + 30)
       [] OTHER -> FALSE

isAllowedNowByCategory(cat, nowUTC) ==
  LET nowNY == setZone(nowUTC)
      weekday == nowNY.weekday
      minutes == nowNY.hour * 60 + nowNY.minute
  IN CASE cat = "crypto" -> TRUE
       [] cat \in {"fxcom", "index"} -> weekday >= 1 /\ weekday <= 5
       [] cat = "equity" ->
            IF ~(weekday >= 1 /\ weekday <= 5) THEN FALSE
            ELSE minutes >= (9*60 + 30) /\ minutes <= (16*60 + 30)
       [] OTHER -> FALSE


(* ------------------------- proof service reply ------------------------ *)
\* a string is the sequence of its characters
trim(s) ==
  LET keep == {i \in DOMAIN s : s[i] # " "}
  IN IF keep = {} THEN <<>>
     ELSE SubSeq(s, CHOOSE i \in keep : \A j \in keep : i <= j,
                    CHOOSE i \in keep : \A j \in keep : i >= j)

startsWith0x(s) == Len(s) >= 2 /\ s[1] = "0" /\ s[2] = "x"

NoError == [type |-> "none", network |-> FALSE, msg |-> "none"]
Err(type, network, msg) == [type |-> type, network |-> network, msg |-> msg]

Settled(ok, value, err) == [ok |-> ok, value |-> value, err |-> err]

\* A reply of the proof service: transport says whether fetch() resolved,
\* ok is r.ok, body is "unparsable", "null", "scalar" or "object", typ and
\* str are the type and (for a string) the characters of j.proof.
Reply(transport, ok, body, typ, str) ==
  [transport |-> transport, ok |-> ok, body |-> body, typ |-> typ, str |-> str]

\* what happens before j.proof is validated, the same in every script
ReadReply(r) ==
  IF ~r.transport THEN Err("TypeError", TRUE, "fetch failed")
  ELSE IF ~r.ok THEN Err("Error", FALSE, "HTTP")
  ELSE IF r.body = "unparsable" THEN Err("SyntaxError", FALSE, "json")
  ELSE IF r.body = "null" THEN Err("TypeError", FALSE, "proof of null")
  ELSE NoError

\* !j.proof || typeof j.proof !== "string"
MissingProof(r) == r.body # "object" \/ r.typ # "string" \/ r.str = <<>>

\* the function pRetry runs in tick of src/index.js and part_002
InlineAttempt(r) ==
  IF ReadReply(r) # NoError THEN Settled(FALSE, <<>>, ReadReply(r))
  ELSE IF MissingProof(r) \/ ~startsWith0x(r.str)
       THEN Settled(FALSE, <<>>, Err("Error", FALSE, "invalid"))
  ELSE Settled(TRUE, r.str, NoError)

\* the function pRetry runs in fetchProof of part_001
fetchProofAttempt(r) ==
  IF ReadReply(r) # NoError THEN Settled(FALSE, <<>>, ReadReply(r))
  ELSE IF MissingProof(r)
       THEN Settled(FALSE, <<>>, Err("Error", FALSE, "missing"))
  ELSE LET p == trim(r.str)
       IN IF p = <<>> \/ p = <<"0", "x">>
          THEN Settled(FALSE, <<>>, Err("Error", FALSE, "empty"))
          ELSE IF ~startsWith0x(p)
               THEN Settled(FALSE, <<>>, Err("Error", FALSE, "malformed"))
          ELSE Settled(TRUE, p, NoError)

FetchAttempt(script, r) ==
  IF script = "part_001" THEN fetchProofAttempt(r) ELSE InlineAttempt(r)

(* ------------------------------ pRetry -------------------------------- *)
\* a variant of FETCH_RETRY with one more retry
FETCH_RETRY_ONE_MORE ==
  [retries |-> 4, factorNum |-> 16, factorDen |-> 10,
   minTimeout |-> 400, maxTimeout |-> 1500]

\* the options of the two pRetry calls; factor is factorNum/factorDen
FETCH_RETRY ==
  [retries |-> 3, factorNum |-> 16, factorDen |-> 10,
   minTimeout |-> 400, maxTimeout |-> 1500]

\* a variant of SUBMIT_RETRY with the retries of the fetch
SUBMIT_RETRY_AS_FETCH ==
  [retries |-> 3, factorNum |-> 15, factorDen |-> 10,
   minTimeout |-> 500, maxTimeout |-> 2000]

SUBMIT_RETRY ==
  [retries |-> 2, factorNum |-> 15, factorDen |-> 10,
   minTimeout |-> 500, maxTimeout |-> 2000]

RECURSIVE Pow(_, _)
Pow(b, e) == IF e = 0 THEN 1 ELSE b * Pow(b, e - 1)

\* the wait before the attempt that follows failed attempt number n:
\* min(round(minTimeout * factor^(n-1)), maxTimeout)
retryTimeout(opts, n) ==
  LET num == opts.minTimeout * Pow(opts.factorNum, n - 1)
      den == Pow(opts.factorDen, n - 1)
      rounded == (2 * num + den) \div (2 * den)
  IN IF rounded < opts.maxTimeout THEN rounded ELSE opts.maxTimeout

\* what pRetry does with the rejection of attempt number n: a TypeError
\* that is not a network error is rethrown at once, any other error is
\* retried while retries are left, and then the promise rejects
pRetryOnError(opts, n, err) ==
  IF err.type = "TypeError" /\ ~err.network THEN "abort"
  ELSE IF n <= opts.retries THEN "retry"
  ELSE "exhausted"


(* ------------------------------ inputs -------------------------------- *)
\* ASSET_IDS_OVERRIDE after split(","), trim and filter(Boolean): "" (no
\* override), "5000-5449", "200-400,x,0" and "x"
Overrides ==
  { <<>>,
    << <<5000, 5449>> >>,
    << <<200, 400>>, <<JUNK>>, <<0>> >>,
    << <<JUNK>> >> }

Instant(wd, h, m, off) == [weekday |-> wd, hour |-> h, minute |-> m, offset |-> off]

\* DateTime.utc() at the start of a tick: Tuesday 14:00 UTC (10:00 in New
\* York) and Monday 02:00 UTC (Sunday 22:00 in New York)
Instants == {Instant(2, 14, 0, 4), Instant(1, 2, 0, 4)}

\* the replies of the proof service that are tried
Replies ==
  { Reply(FALSE, FALSE, "none", "undefined", <<>>),
    Reply(TRUE, FALSE, "none", "undefined", <<>>),
    Reply(TRUE, TRUE, "unparsable", "undefined", <<>>),
    Reply(TRUE, TRUE, "null", "undefined", <<>>),
    Reply(TRUE, TRUE, "scalar", "undefined", <<>>),
    Reply(TRUE, TRUE, "object", "undefined", <<>>),
    Reply(TRUE, TRUE, "object", "number", <<>>),
    Reply(TRUE, TRUE, "object", "string", <<>>),
    Reply(TRUE, TRUE, "object", "string", <<"0", "x">>),
    Reply(TRUE, TRUE, "object", "string", <<"z", "z">>),
    Reply(TRUE, TRUE, "object", "string", <<"0", "x", "a">>),
    Reply(TRUE, TRUE, "object", "string", <<"0", "x", "b">>),
    Reply(TRUE, TRUE, "object", "string", <<" ", "0", "x", "a">>) }

\* how a call of contract.ingestProof settles: it resolves with a
\* transaction, rejects with an Error before the transaction was sent,
\* rejects with an Error although the transaction was sent and takes effect
\* (the reply of the node was lost or timed out), or rejects with a TypeError
SubmitResults == {"resolved", "rejected", "rejectedAfterEffect", "typeError"}

\* did the call take effect on-chain ?
TookEffect(res) == res \in {"resolved", "rejectedAfterEffect"}

(* ------------------------------- state -------------------------------- *)
VARIABLES
  script,         \* which of the three scripts runs
  MONITORED_IDS,  \* the monitored identifiers, computed once
  main,           \* "init" before the start-up block has run, then "started"
  alive,          \* FALSE once a rejection was left unhandled
  busy,           \* the busy flag
  tk,             \* the tick bodies: slot -> tick record
  timers,         \* the pending timers, each [kind, rem]
  sinceEnd,       \* time since the last tick ended, while no tick runs
  last,           \* what the last step did
  call            \* the helper call that is evaluated on its own, if any

vars == <<script, MONITORED_IDS, main, alive, busy, tk, timers, sinceEnd,
          last, call>>

Slots == 1..MaxTicks

Timer(kind, rem) == [kind |-> kind, rem |-> rem]

NoInstant == Instant(0, 0, 0, 0)

\* A tick record.  pc, caller, now, groups, gi, attempt, wait and proof are
\* the locals of the tick body; aged says that time has passed since the
\* network call in flight was issued; reqs and subs count the fetch
\* requests and the ingestProof calls of batch gi, fetched and sent record
\* the value the fetch of batch gi resolved with and the argument of its
\* ingestProof calls, effects counts the ingestProof calls of batch gi that
\* took effect on-chain, accepted counts the batches whose submission
\* resolved, lastErr is the error of the attempt that settled last.
Free ==
  [pc |-> "free", caller |-> "none", now |-> NoInstant, groups |-> <<>>,
   gi |-> 0, attempt |-> 0, wait |-> 0, proof |-> <<>>, aged |-> FALSE,
   reqs |-> 0, subs |-> 0, hasFetched |-> FALSE, fetched |-> <<>>,
   sent |-> <<>>, effects |-> 0, accepted |-> 0, failedAt |-> 0, lastErr |-> NoError,
   outcome |-> "none", err |-> NoError]

\* What a step did: the action, whether a tick body was entered, whether a
\* call of tick() returned on the busy flag, the record of the tick that
\* ended in the step (Free if none), the state of its promise, and for a
\* timer that fired with no tick running the time since the last tick ended
Act(act, started, skipped, ended, promise, gap) ==
  [act |-> act, started |-> started, skipped |-> skipped, ended |-> ended,
   promise |-> promise, gap |-> gap]

\* A call of a helper: the function, its arguments (cat and now for
\* isAllowedNowByCategory, id for the category function, spec for
\* expandRanges, arr and size for chunk), whether it has returned, and the
\* value it returned
Call(fn, cat, now, id, spec, arr, size) ==
  [fn |-> fn, cat |-> cat, now |-> now, id |-> id, spec |-> spec,
   arr |-> arr, size |-> size, done |-> FALSE, ret |-> <<>>]

NoCall == Call("none", "none", NoInstant, 0, <<>>, <<>>, 0)

MonitoredSets(s, override) ==
  IF override # <<>> THEN expandRanges(s, override)
  ELSE IF s = "index" THEN {ALL_IDS}
  ELSE {SortAscending(DEFAULT_ALL_IDS)}

Init ==
  /\ script \in Scripts
  /\ \E o \in Overrides : MONITORED_IDS \in MonitoredSets(script, o)
  /\ main = "init"
  /\ alive = TRUE
  /\ busy = FALSE
  /\ tk = [i \in Slots |-> Free]
  /\ timers = <<>>
  /\ sinceEnd = 0
  /\ last = Act("Init", FALSE, FALSE, Free, "none", -1)
  /\ call = NoCall

(* --------------------------- the tick body ---------------------------- *)
End(t, outcome, err) ==
  [t EXCEPT !.pc = "end", !.outcome = outcome, !.err = err]

\* the top of the loop body for batch k, up to the fetch request
BeginBatch(t, k) ==
  [t EXCEPT !.gi = k, !.pc = "fetch", !.attempt = 1, !.proof = <<>>,
            !.aged = FALSE, !.wait = 0,
            !.reqs = 1, !.subs = 0, !.hasFetched = FALSE, !.fetched = <<>>,
            !.sent = <<>>, !.effects = 0, !.lastErr = NoError]

NextBatch(t) ==
  IF t.gi < Len(t.groups) THEN BeginBatch(t, t.gi + 1)
  ELSE End(t, "ok", NoError)

\* a variant of allowedIds that leaves the calendar out
allowedIdsWithoutCalendar(s, monitored, now) == monitored

\* MONITORED_IDS.filter(id => isAllowedNowByCategory(category(id), now))
allowedIds(s, monitored, now) ==
  SelectSeq(monitored,
            LAMBDA id : isAllowedNowByCategory(CategoryOf(s, id), now))

\* a variant of StartTick without the test of allowed.length
StartTickWithoutEmptyTest(caller, now, allowed) ==
  BeginBatch([Free EXCEPT !.caller = caller, !.now = now,
                          !.groups = chunk(allowed, MAX_PER_PROOF)], 1)

\* tick() from the test of `allowed` to the first await
StartTick(caller, now, allowed) ==
  LET t == [Free EXCEPT !.caller = caller, !.now = now]
  IN IF Len(allowed) = 0 THEN End(t, "empty", NoError)
     ELSE BeginBatch([t EXCEPT !.groups = chunk(allowed, MAX_PER_PROOF)], 1)

\* a variant of Abort in which the error is caught inside the for loop
AbortSkipsBatch(t, outcome, err) ==
  IF t.gi < Len(t.groups)
  THEN BeginBatch([t EXCEPT !.failedAt = t.gi], t.gi + 1)
  ELSE End([t EXCEPT !.failedAt = t.gi], outcome, err)

\* an error leaves the for loop: the catch block logs it
Abort(t, outcome, err) == End([t EXCEPT !.failedAt = t.gi], outcome, err)

\* contract.ingestProof(proof) is called
SubmitCall(t) ==
  [t EXCEPT !.pc = "submit", !.aged = FALSE, !.subs = t.subs + 1,
            !.sent = t.proof]

\* a variant of OnFetchRejected in which the rejection is swallowed
OnFetchRejectedGoesOn(t, err) ==
  SubmitCall([t EXCEPT !.lastErr = err, !.attempt = 1])

\* the pRetry of the fetch rejects with err
OnFetchRejected(t, err) == Abort([t EXCEPT !.lastErr = err], "fetchFail", err)

\* the fetch attempt settles
OnFetchSettled(s, t, r) ==
  LET a == FetchAttempt(s, r)
      d == pRetryOnError(FETCH_RETRY, t.attempt, a.err)
  IN IF a.ok
     THEN SubmitCall([t EXCEPT !.proof = a.value, !.hasFetched = TRUE,
                               !.fetched = a.value, !.attempt = 1])
     ELSE IF d = "retry"
          THEN [t EXCEPT !.pc = "fetchWait",
                         !.wait = retryTimeout(FETCH_RETRY, t.attempt)]
          ELSE OnFetchRejected(t, a.err)

SubmitError(res) ==
  IF res = "typeError" THEN Err("TypeError", FALSE, "invalid argument")
  ELSE Err("Error", FALSE, "rejected")

\* the ingestProof call settles; pace is the delay of the sleep that
\* part_001 takes after the log line
OnSubmitSettled(s, t0, res, pace) ==
  LET t == [t0 EXCEPT !.effects = IF TookEffect(res) THEN t0.effects + 1
                                  ELSE t0.effects]
      e == SubmitError(res)
      d == pRetryOnError(SUBMIT_RETRY, t.attempt, e)
  IN IF res = "resolved"
     THEN LET u == [t EXCEPT !.accepted = t.accepted + 1]
          IN IF s = "part_001"
             THEN [u EXCEPT !.pc = "pace", !.wait = pace]
             ELSE NextBatch(u)
     ELSE IF d = "retry"
          THEN [t EXCEPT !.pc = "submitWait",
                         !.wait = retryTimeout(SUBMIT_RETRY, t.attempt)]
          ELSE Abort([t EXCEPT !.lastErr = e], "submitFail", e)

\* a variant of OnWake that does not call ingestProof again when an earlier
\* call of the batch has taken effect
OnWakeDeduplicates(t) ==
  CASE t.pc = "fetchWait" ->
         [t EXCEPT !.pc = "fetch", !.attempt = t.attempt + 1,
                   !.aged = FALSE, !.reqs = t.reqs + 1]
    [] t.pc = "submitWait" /\ t.effects = 0 ->
         SubmitCall([t EXCEPT !.attempt = t.attempt + 1])
    [] OTHER -> NextBatch([t EXCEPT !.accepted = t.gi])

\* a wait of the tick body is over
OnWake(t) ==
  CASE t.pc = "fetchWait" ->
         [t EXCEPT !.pc = "fetch", !.attempt = t.attempt + 1,
                   !.aged = FALSE, !.reqs = t.reqs + 1]
    [] t.pc = "submitWait" ->
         SubmitCall([t EXCEPT !.attempt = t.attempt + 1])
    [] OTHER -> NextBatch(t)


(* ----------------------------- scheduling ----------------------------- *)
\* a variant of Skips without the test of the busy flag
SkipsNever(b) == FALSE

\* `if (busy) return;` : does the call of tick() return at once ?
Skips(b) == b

\* a variant of BusyAfterTick that clears the flag after the loop only
BusyAfterLoopOnly(t) == t.failedAt > 0

\* the busy flag after the finally block of a tick that ended as t
BusyAfterTick(t) == FALSE

\* a variant of TickPromise in which the catch block rethrows
TickPromiseRethrows(t) == IF t.failedAt > 0 THEN "rejected" ELSE "resolved"

\* the state of the promise of a tick that ended as t: the catch block
\* swallows the error, the async function returns normally
TickPromise(t) == "resolved"

\* a variant of AfterTick in which loop() arms a periodic timer once
AfterTickLoopByInterval(caller, tm, jitter) ==
  IF caller \in {"main", "loop"} /\ tm = <<>>
  THEN Append(tm, Timer("interval", INTERVAL_MS))
  ELSE tm

\* what the caller of tick() does when the promise resolves: the start-up
\* block of index.js and part_002 calls setInterval, loop() of part_001
\* arms a timeout of INTERVAL_MS + jitter, a timer callback does nothing
AfterTick(caller, tm, jitter) ==
  CASE caller = "main" -> Append(tm, Timer("interval", INTERVAL_MS))
    [] caller = "loop" -> Append(tm, Timer("timeout", INTERVAL_MS + jitter))
    [] OTHER -> tm

\* the values of `jitter` that matter to the caller of tick()
JitterOf(caller) == IF caller = "loop" THEN RandomBelow300 ELSE {0}

Active(t) == t.pc # "free"
Waiting(t) == t.pc \in {"fetchWait", "submitWait", "pace"}
InFlight(t) == t.pc \in {"fetch", "submit"}

Idle == \A i \in Slots : ~Active(tk[i])

\* the tick body in slot i has become next; b is the busy flag if it goes on
Conclude(i, next, b, base, act, started, gap) ==
  \E t2 \in {next} :
  IF t2.pc # "end"
  THEN /\ tk' = [tk EXCEPT ![i] = t2]
       /\ busy' = b
       /\ timers' = base
       /\ sinceEnd' = 0
       /\ UNCHANGED alive
       /\ last' = Act(act, started, FALSE, Free, "none", gap)
  ELSE /\ tk' = [tk EXCEPT ![i] = Free]
       /\ busy' = BusyAfterTick(t2)
       /\ sinceEnd' = 0
       /\ IF TickPromise(t2) = "resolved"
          THEN /\ \E jitter \in JitterOf(t2.caller) :
                    timers' = AfterTick(t2.caller, base, jitter)
               /\ alive' = alive
          ELSE timers' = base /\ alive' = FALSE
       /\ last' = Act(act, started, FALSE, t2, TickPromise(t2), gap)

\* a call of tick()
InvokeTick(caller, base, act, gap) ==
  IF Skips(busy)
  THEN /\ \E jitter \in JitterOf(caller) :
            timers' = AfterTick(caller, base, jitter)
       /\ last' = Act(act, FALSE, TRUE, Free, "resolved", gap)
       /\ UNCHANGED <<busy, tk, sinceEnd, alive>>
  ELSE \E i \in Slots :
         /\ tk[i].pc = "free"
         /\ \A k \in Slots : k < i => tk[k].pc # "free"
         /\ \E now \in Instants :
            \E allowed \in {allowedIds(script, MONITORED_IDS, now)} :
              Conclude(i, StartTick(caller, now, allowed),
                       TRUE, base, act, TRUE, gap)

\* the start-up block: `await tick()` or `await loop()`
Start ==
  /\ alive /\ main = "init"
  /\ main' = "started"
  /\ InvokeTick(IF script = "part_001" THEN "loop" ELSE "main",
                timers, "Start", -1)
  /\ UNCHANGED <<script, MONITORED_IDS, call>>

RemoveAt(s, k) == SubSeq(s, 1, k - 1) \o SubSeq(s, k + 1, Len(s))

\* a timer is due: setInterval calls tick, setTimeout calls loop
Fire ==
  /\ alive
  /\ \E k \in DOMAIN timers :
       /\ timers[k].rem = 0
       /\ LET periodic == timers[k].kind = "interval"
              base == IF periodic
                      THEN [timers EXCEPT ![k].rem = INTERVAL_MS]
                      ELSE RemoveAt(timers, k)
              gap == IF Idle THEN sinceEnd ELSE -1
          IN InvokeTick(IF periodic THEN "timer" ELSE "loop",
                        base, "Fire", gap)
  /\ UNCHANGED <<script, MONITORED_IDS, main, call>>

\* the proof service answers the request of the tick in slot i
Response(i) ==
  /\ alive /\ tk[i].pc = "fetch" /\ tk[i].aged
  /\ \E r \in Replies :
       Conclude(i, OnFetchSettled(script, tk[i], r), busy, timers,
                "Response", FALSE, -1)
  /\ UNCHANGED <<script, MONITORED_IDS, main, call>>

\* the ingestProof call of the tick in slot i settles
Result(i) ==
  /\ alive /\ tk[i].pc = "submit" /\ tk[i].aged
  /\ \E res \in SubmitResults : \E rnd \in RandomBelow300 :
       Conclude(i, OnSubmitSettled(script, tk[i], res, 200 + rnd), busy,
                timers, "Result", FALSE, -1)
  /\ UNCHANGED <<script, MONITORED_IDS, main, call>>

\* a backoff or pacing wait of the tick in slot i is over
Wake(i) ==
  /\ alive /\ Waiting(tk[i]) /\ tk[i].wait = 0
  /\ Conclude(i, OnWake(tk[i]), busy, timers, "Wake", FALSE, -1)
  /\ UNCHANGED <<script, MONITORED_IDS, main, call>>

\* Time passes, by d.  It passes up to the next timer or wait that is due.
\* A network call takes time; while one is in flight and no wait runs, time
\* also passes up to the middle of the period of the pending timer, or by
\* Latency when no timer is pending.
Advance ==
  /\ alive
  /\ LET dues == {timers[k].rem : k \in DOMAIN timers}
                   \cup {tk[i].wait : i \in {n \in Slots : Waiting(tk[n])}}
         next == IF dues = {} THEN {}
                 ELSE {CHOOSE m \in dues : \A x \in dues : m <= x}
         calling == (\E i \in Slots : InFlight(tk[i]))
                      /\ ~(\E i \in Slots : Waiting(tk[i]))
         slices == IF ~calling THEN {}
                   ELSE IF timers = <<>> THEN {Latency}
                   ELSE {timers[k].rem - INTERVAL_MS \div 2 :
                           k \in DOMAIN timers}
     IN \E d \in next \cup slices :
          /\ d > 0
          /\ \A x \in dues : d <= x
          /\ timers' = [k \in DOMAIN timers |->
                          Timer(timers[k].kind, timers[k].rem - d)]
          /\ tk' = [i \in Slots |->
                      IF Waiting(tk[i])
                      THEN [tk[i] EXCEPT !.wait = tk[i].wait - d]
                      ELSE IF InFlight(tk[i])
                           THEN [tk[i] EXCEPT !.aged = TRUE]
                           ELSE tk[i]]
          /\ sinceEnd' = IF Idle THEN sinceEnd + d ELSE 0
  /\ last' = Act("Advance", FALSE, FALSE, Free, "none", -1)
  /\ UNCHANGED <<script, MONITORED_IDS, main, alive, busy, call>>

Next ==
  \/ Start
  \/ Fire
  \/ \E i \in Slots : Response(i)
  \/ \E i \in Slots : Result(i)
  \/ \E i \in Slots : Wake(i)
  \/ Advance

Spec == Init /\ [][Next]_vars

\* the event loop runs every callback that is ready, timers come due, and
\* every network call settles
FairSpec ==
  /\ Spec
  /\ WF_vars(Start) /\ WF_vars(Fire) /\ WF_vars(Advance)
  /\ WF_vars(\E i \in Slots : Response(i))
  /\ WF_vars(\E i \in Slots : Result(i))
  /\ WF_vars(\E i \in Slots : Wake(i))

(* ------------------------- the helpers alone -------------------------- *)
\* the categories passed to isAllowedNowByCategory
Categories == {"crypto", "fxcom", "index", "equity", "unknown", "other"}

\* every weekday and hour in UTC, the minutes around the half hour, under
\* both offsets of America/New_York (EDT, EST)
CalendarInstants ==
  {Instant(wd, h, m, off) :
     wd \in 1..7, h \in 0..23, m \in {0, 29, 30, 31, 59}, off \in {4, 5}}

\* the tokens of an override string: "0", "2", "x", "1-3", "3-1", "2-x"
Tokens == {<<0>>, <<2>>, <<JUNK>>, <<1, 3>>, <<3, 1>>, <<2, JUNK>>}

SeqsUpTo(S, n) == UNION {[1..k -> S] : k \in 0..n}

\* the arrays passed to chunk: every array of up to MaxLen elements, and
\* the array 1..450
Arrays == SeqsUpTo({1, 2}, MaxLen) \cup {rangeHalfOpen(1, 451)}

\* the sizes passed to chunk, the size the tick passes among them
Sizes == (1..MaxSize) \cup {MAX_PER_PROOF}

Calls ==
  {Call("isAllowedNowByCategory", c, n, 0, <<>>, <<>>, 0) :
     c \in Categories, n \in CalendarInstants}
  \cup {Call("getCategory", "none", NoInstant, id, <<>>, <<>>, 0) :
          id \in 0..MaxId}
  \cup {Call("expandRanges", "none", NoInstant, 0, sp, <<>>, 0) :
          sp \in SeqsUpTo(Tokens, MaxTokens) \ {<<>>}}
  \cup {Call("chunk", "none", NoInstant, 0, <<>>, a, n) :
          a \in Arrays, n \in Sizes}

\* a script has been loaded, no tick has run, and a helper is called
HelperInit ==
  /\ script \in Scripts
  /\ MONITORED_IDS \in MonitoredSets(script, <<>>)
  /\ main = "init"
  /\ alive = TRUE
  /\ busy = FALSE
  /\ tk = [i \in Slots |-> Free]
  /\ timers = <<>>
  /\ sinceEnd = 0
  /\ last = Act("Init", FALSE, FALSE, Free, "none", -1)
  /\ call \in Calls

Return(v) ==
  /\ call' = [call EXCEPT !.done = TRUE, !.ret = v]
  /\ UNCHANGED <<script, MONITORED_IDS, main, alive, busy, tk, timers,
                 sinceEnd, last>>

CallIsAllowedNowByCategory ==
  /\ call.fn = "isAllowedNowByCategory" /\ ~call.done
  /\ Return(isAllowedNowByCategory(call.cat, call.now))

CallCategoryOf ==
  /\ call.fn = "getCategory" /\ ~call.done
  /\ Return(CategoryOf(script, call.id))

CallExpandRanges ==
  /\ call.fn = "expandRanges" /\ ~call.done
  /\ \E v \in expandRanges(script, call.spec) : Return(v)

CallChunk ==
  /\ call.fn = "chunk" /\ ~call.done
  /\ Return(chunk(call.arr, call.size))

HelperNext ==
  \/ CallIsAllowedNowByCategory
  \/ CallCategoryOf
  \/ CallExpandRanges
  \/ CallChunk

HelperSpec == HelperInit /\ [][HelperNext]_vars

(* ------------------------------ claims -------------------------------- *)
Ticks == {tk[i] : i \in Slots} \cup {last.ended}

\* C1: at most one tick body is between setting and clearing the busy
\* flag, so at most one tick has a fetch or a submit call in flight
C1_MutualExclusion ==
  /\ Cardinality({i \in Slots : Active(tk[i])}) <= 1
  /\ Cardinality({i \in Slots : InFlight(tk[i])}) <= 1

\* a timer fired while the only tick had a network call in flight
C1_Witness ==
  /\ last.act = "Fire" /\ last.skipped
  /\ \E i \in Slots : InFlight(tk[i]) /\ tk[i].gi = 2

\* C2: a timer that fires while the busy flag is set changes nothing but
\* the timer itself: no tick body is entered, no call is issued, the flag
\* stays set, no timer is added; and a tick body is entered only in a step
\* in which tick() is called with the flag clear
C2_DroppedNotQueued ==
  [][ /\ (last'.act = "Fire" /\ busy) =>
           /\ tk' = tk /\ busy' /\ last'.skipped /\ ~last'.started
           /\ Len(timers') = Len(timers)
      /\ last'.started =>
           /\ ~busy /\ last'.act \in {"Start", "Fire"}
           /\ Cardinality({i \in Slots : Active(tk'[i])}) <= 1
    ]_vars

\* a timer fired, and was dropped, during a backoff wait of the running tick
C2_Witness ==
  /\ last.act = "Fire" /\ last.skipped /\ busy
  /\ \E i \in Slots : Waiting(tk[i])

\* C3: the busy flag is set exactly while a tick body runs, and it is clear
\* in the state in which a tick has ended, whatever the way it ended
C3_BusyReleased ==
  /\ busy <=> ~Idle
  /\ last.ended.pc = "end" => ~busy

\* a tick of three batches failed in the fetch of batch 2
C3_Witness ==
  /\ last.ended.outcome = "fetchFail"
  /\ last.ended.failedAt = 2 /\ Len(last.ended.groups) = 3
  /\ ~busy

\* C4: a tick in which a batch failed has ended: it goes on to no later
\* batch, and the batches before the failed one stay submitted
C4_AbortOnFailure ==
  /\ \A i \in Slots : tk[i].failedAt = 0
  /\ last.ended.failedAt > 0 =>
       /\ last.ended.outcome \in {"fetchFail", "submitFail"}
       /\ last.ended.gi = last.ended.failedAt
       /\ last.ended.accepted = last.ended.failedAt - 1

\* a tick of three batches failed in the submission of batch 2
C4_Witness ==
  /\ last.ended.outcome = "submitFail"
  /\ last.ended.failedAt = 2 /\ Len(last.ended.groups) = 3
  /\ last.ended.accepted = 1

\* C5: a batch gets at most 4 fetch requests; a fetch that resolved is
\* followed by no further request and its value is the proof of the tick;
\* the fetch fails only after 4 failed attempts, with the last error
C5_FetchRetryBound ==
  \A t \in Ticks :
    /\ t.reqs <= 4
    /\ t.hasFetched => t.pc \notin {"fetch", "fetchWait"} /\ t.proof = t.fetched
    /\ t.outcome = "fetchFail" => t.reqs = 4 /\ t.err = t.lastErr

\* C6: ingestProof is called for a batch only after the fetch of that batch
\* resolved, with the value it resolved with, which begins with "0x"; a
\* batch whose fetch failed gets no ingestProof call
C6_SubmitsFetchedPayload ==
  \A t \in Ticks :
    /\ t.subs > 0 =>
         t.hasFetched /\ t.sent = t.fetched /\ startsWith0x(t.fetched)
    /\ t.outcome = "fetchFail" => t.subs = 0 /\ ~t.hasFetched

\* the fetch of batch 2 failed at its fourth attempt, nothing was submitted
\* for it
C6_Witness ==
  /\ last.ended.outcome = "fetchFail" /\ last.ended.reqs = 4
  /\ last.ended.gi = 2 /\ last.ended.subs = 0

\* C7: a batch gets at most 3 ingestProof calls, each call after the first
\* follows a rejection and a wait, no wait follows the third rejection, and
\* the batch counts as submitted as soon as one call resolves
C7_SubmitRetryBound ==
  \A t \in Ticks :
    /\ t.subs <= 3
    /\ t.pc \in {"submit", "submitWait"} => t.subs = t.attempt
    /\ t.pc = "submitWait" => t.subs < 3
    /\ t.outcome = "submitFail" => t.err = t.lastErr /\ t.accepted = t.gi - 1
    /\ t.pc \in {"fetch", "fetchWait", "submit", "submitWait"} =>
         t.accepted = t.gi - 1
    /\ t.pc = "pace" \/ t.outcome = "ok" => t.accepted = t.gi

\* the third ingestProof call of a batch was rejected and the tick ended
C7_Witness ==
  /\ last.ended.outcome = "submitFail" /\ last.ended.subs = 3
  /\ last.ended.err.type = "Error"

\* C8: every identifier of a batch is smaller than every identifier of the
\* next batch, batch k+1 is begun only when the submission of batch k has
\* resolved, and at most one network call is in flight
C8_AscendingSequential ==
  /\ \A t \in Ticks :
       /\ \A k \in 1..(Len(t.groups) - 1) :
            \A i \in DOMAIN t.groups[k] : \A j \in DOMAIN t.groups[k + 1] :
              Lt(t.groups[k][i], t.groups[k + 1][j])
       /\ t.pc \in {"fetch", "fetchWait", "submit", "submitWait"} =>
            t.accepted = t.gi - 1
  /\ Cardinality({i \in Slots : InFlight(tk[i])}) <= 1

\* C9: when no tick runs one timer is pending, and a timer that starts the
\* next tick fires INTERVAL_MS + j after the end of the last tick, j in 0..300
C9_RearmWithJitter ==
  /\ (Idle /\ main = "started") => Len(timers) = 1
  /\ (last.act = "Fire" /\ last.gap >= 0) =>
       INTERVAL_MS <= last.gap /\ last.gap <= INTERVAL_MS + 300

\* C10: the promise of a tick never rejects, no rejection is left unhandled,
\* and a new tick body is entered again and again
C10_NoErrorEscapes ==
  /\ [](alive /\ last.promise # "rejected")
  /\ []<>(last.started)

\* a tick that a timer started failed, its promise resolved and the next
\* timer is pending
C10_Witness ==
  /\ last.ended.failedAt > 0 /\ last.ended.caller \in {"timer", "loop"}
  /\ last.promise = "resolved" /\ alive /\ Len(timers) = 1

\* the Eligible Set at instant now: the monitored identifiers whose category
\* is open at now, in the order of the Monitored Set
EligibleAt(now) ==
  SelectSeq(MONITORED_IDS,
            LAMBDA id : isAllowedNowByCategory(CategoryOf(script, id), now))

\* C11: a tick whose Eligible Set is empty has ended at once, with no fetch
\* request, no ingestProof call and no error; its promise resolved and the
\* busy flag is clear
C11_EmptyEligibleSet ==
  \A t \in Ticks :
    (Active(t) /\ ~(\E k \in DOMAIN MONITORED_IDS :
                      isAllowedNowByCategory(
                        CategoryOf(script, MONITORED_IDS[k]), t.now))) =>
      /\ t.pc = "end" /\ t.outcome = "empty"
      /\ t.reqs = 0 /\ t.subs = 0 /\ t.effects = 0
      /\ t.err = NoError /\ t.failedAt = 0
      /\ last.promise = "resolved" /\ ~busy

\* a timer started a tick on a non-empty Monitored Set none of whose
\* identifiers was eligible, and the tick ended at once
C11_Witness ==
  /\ last.act = "Fire" /\ last.started
  /\ last.ended.outcome = "empty" /\ last.ended.reqs = 0
  /\ MONITORED_IDS # <<>> /\ ~busy

\* C12: every payload handed to ingestProof begins with "0x" and carries at
\* least one character after the prefix
C12_WellFormedPayload ==
  \A t \in Ticks :
    t.subs > 0 => startsWith0x(t.sent) /\ Len(t.sent) > 2

\* C13: a fetch attempt that fails before the 4th attempt, whatever the
\* class of the failure, is followed by a backoff wait and a retry: the
\* reply to attempt n < 4 either resolves the fetch or starts the wait
C13_EveryFailureRetried ==
  [][ \A i \in Slots :
        (tk[i].pc = "fetch" /\ tk[i].attempt < 4 /\ last'.act = "Response")
          => \/ tk'[i].pc = "submit" /\ tk'[i].hasFetched
             \/ tk'[i].pc = "fetchWait" /\ tk'[i].attempt = tk[i].attempt
    ]_vars

\* C14: a retry of the submission calls ingestProof again with the payload
\* of the batch whether or not an earlier call of the batch took effect, so
\* the number of effects of a payload is bounded by the number of calls only
C14_ResubmissionNotDeduplicated ==
  [][ \A i \in Slots :
        /\ tk'[i].effects <= tk'[i].subs
        /\ (tk[i].pc = "submitWait" /\ last'.act = "Wake") =>
             /\ tk'[i].pc = "submit" /\ tk'[i].subs = tk[i].subs + 1
             /\ tk'[i].sent = tk[i].sent /\ tk'[i].sent = tk[i].fetched
             /\ tk'[i].effects = tk[i].effects
    ]_vars

\* the payload of one batch took effect twice in one tick: the first call
\* took effect and was reported as failed, the retry resolved
C14_Witness ==
  \E t \in Ticks :
    /\ t.effects = 2 /\ t.subs = 2 /\ t.accepted = t.gi
    /\ t.sent = t.fetched

\* C15: the first fetch request of batch k+1 is issued when a pacing wait,
\* begun at 200..500 ms after the submission of batch k resolved, is over
C15_InterBatchPacing ==
  [][ \A i \in Slots :
        /\ (tk'[i].pc = "fetch" /\ tk'[i].gi > 1 /\ tk'[i].gi # tk[i].gi) =>
             tk[i].pc = "pace" /\ tk[i].wait = 0 /\ last'.act = "Wake"
        /\ (tk'[i].pc = "pace" /\ tk[i].pc # "pace") =>
             tk'[i].wait >= 200 /\ tk'[i].wait <= 500
    ]_vars

LocalWeekday(now) == setZone(now).weekday
LocalMinute(now) == setZone(now).hour * 60 + setZone(now).minute

\* C16: isAllowedNowByCategory returns the reference rule: crypto always;
\* fxcom and index on Monday..Friday; equity on Monday..Friday from minute
\* 570 to minute 990, both included; every other category never
C16_CalendarPolicy ==
  (call.fn = "isAllowedNowByCategory" /\ call.done) =>
    LET wd == LocalWeekday(call.now)
        m == LocalMinute(call.now)
    IN call.ret =
         (\/ call.cat = "crypto"
          \/ call.cat \in {"fxcom", "index"} /\ wd \in 1..5
          \/ call.cat = "equity" /\ wd \in 1..5 /\ m \in 570..990)

\* equity was found eligible on a Friday at 16:30 New York time
C16_Witness ==
  /\ call.fn = "isAllowedNowByCategory" /\ call.done
  /\ call.cat = "equity" /\ call.ret = TRUE
  /\ LocalWeekday(call.now) = 5 /\ LocalMinute(call.now) = 990

\* C17: in every script the category of an identifier is the category of
\* its table entry if it has one, and else crypto for 0..1000, fxcom for
\* 5000..5600, equity from 6000 on, unknown for every other identifier
C17_CategoryResolution ==
  (call.fn = "getCategory" /\ call.done) =>
    LET id == call.id
        entries == {i \in DOMAIN ASSETS : ASSETS[i][1] = id}
    IN call.ret =
         IF entries # {} THEN ASSETS[CHOOSE i \in entries : TRUE][2]
         ELSE IF id >= 0 /\ id <= 1000 THEN "crypto"
         ELSE IF id >= 5000 /\ id <= 5600 THEN "fxcom"
         ELSE IF id >= 6000 THEN "equity"
         ELSE "unknown"

\* the integers an override string names: n for a token n, the integers
\* between a and b for a token a-b, nothing for any other token
NamedBy(token) ==
  IF \E k \in DOMAIN token : token[k] < 0 THEN {}
  ELSE IF Len(token) = 1 THEN {token[1]}
  ELSE {n \in 0..(token[1] + token[2]) :
          \/ token[1] <= n /\ n <= token[2]
          \/ token[2] <= n /\ n <= token[1]}

\* C18: expandRanges returns a strictly ascending sequence of integers (no
\* NaN) whose elements are exactly the integers the tokens name
C18_MonitoredSetConstruction ==
  (call.fn = "expandRanges" /\ call.done) =>
    /\ \A i \in DOMAIN call.ret : call.ret[i] # NaN
    /\ \A i \in 2..Len(call.ret) : call.ret[i - 1] < call.ret[i]
    /\ Range(call.ret) = UNION {NamedBy(call.spec[k]) : k \in DOMAIN call.spec}

\* C19: chunk returns non-empty groups of at most size elements, all but
\* the last of exactly size elements, whose concatenation is the input
\* (element j of group k is element (k-1)*size + j of the input and the
\* lengths add up to the length of the input); an empty input gives no group
C19_Batcher ==
  (call.fn = "chunk" /\ call.done) =>
    /\ \A k \in DOMAIN call.ret :
         /\ Len(call.ret[k]) >= 1 /\ Len(call.ret[k]) <= call.size
         /\ k < Len(call.ret) => Len(call.ret[k]) = call.size
         /\ \A j \in DOMAIN call.ret[k] :
              /\ (k - 1) * call.size + j \in DOMAIN call.arr
              /\ call.ret[k][j] = call.arr[(k - 1) * call.size + j]
    /\ call.ret # <<>> =>
         Len(call.arr) = (Len(call.ret) - 1) * call.size
                           + Len(call.ret[Len(call.ret)])
    /\ call.arr = <<>> <=> call.ret = <<>>

\* 450 elements were chunked by 200 into groups of 200, 200 and 50
C19_Witness ==
  /\ call.fn = "chunk" /\ call.done
  /\ Len(call.arr) = 450 /\ call.size = MAX_PER_PROOF
  /\ [k \in DOMAIN call.ret |-> Len(call.ret[k])] = <<200, 200, 50>>

\* C21: when every call and every wait returns, a tick that runs ends; it
\* handles its batches once each, in order, with at most 4 fetch requests
\* and 3 ingestProof calls for a batch, so at most 4*B and 3*B for the B
\* batches; and while a call is in flight nothing but its return moves the
\* tick or clears the busy flag (no attempt has a time limit)
C21_TickTerminates ==
  /\ [][ \A i \in Slots :
           /\ \A t \in {tk'[i], last'.ended} :
                t.reqs <= 4 /\ t.subs <= 3 /\ t.gi <= Len(t.groups)
           /\ (Active(tk[i]) /\ Active(tk'[i])) =>
                /\ tk'[i].gi \in {tk[i].gi, tk[i].gi + 1}
                /\ tk'[i].gi = tk[i].gi =>
                     tk'[i].reqs >= tk[i].reqs /\ tk'[i].subs >= tk[i].subs
           /\ (InFlight(tk[i]) /\ last'.act \notin {"Response", "Result"}) =>
                /\ busy' /\ tk'[i].pc = tk[i].pc /\ tk'[i].gi = tk[i].gi
                /\ tk'[i].reqs = tk[i].reqs /\ tk'[i].subs = tk[i].subs
       ]_vars
  /\ (busy ~> ~busy)

\* a tick of several batches ended well after the fourth fetch request and
\* the third ingestProof call of its last batch
C21_Witness ==
  /\ last.ended.outcome = "ok" /\ Len(last.ended.groups) >= 2
  /\ last.ended.reqs = 4 /\ last.ended.subs = 3 /\ ~busy

\* C22: in part_001 at most one timer is pending, none while a tick runs,
\* no call of tick() returns on the busy flag, every timer that fires starts
\* a tick, and it fires no sooner than INTERVAL_MS after the last tick ended
C22_SelfRearmingLoop ==
  script = "part_001" =>
    /\ Len(timers) <= 1
    /\ ~Idle => timers = <<>>
    /\ ~last.skipped
    /\ last.act = "Fire" => last.started /\ last.gap >= INTERVAL_MS

\* in part_001 the timer fired INTERVAL_MS after a failed tick had ended
\* and started the next tick, with no timer left pending
C22_Witness ==
  /\ script = "part_001" /\ last.act = "Fire" /\ last.started
  /\ last.gap = INTERVAL_MS /\ timers = <<>> /\ busy

============================================================================
